---- MODULE Spec2Model ----
(***************************************************************************)
(* The transaction entry grid of frontend/src/pages/SaisieEcritures.tsx:   *)
(* the flat sequence of entry lines, the tracked focus cell, the derived   *)
(* totals, auto-balance, keyboard navigation and the save loop.            *)
(*                                                                         *)
(* Conventions.  Rows and columns are 0-based as in the source; the line   *)
(* at row r is lignes[r + 1].  Text fields that the code inspects          *)
(* character by character (account codes, amounts) are sequences of        *)
(* one-character strings; amounts are parsed to integer cents, so 0.01 is  *)
(* 1.  An absent compteId (undefined) is 0.  The fields date, piece, tiers *)
(* and isNew of a line are never read by the operations modelled here and  *)
(* are left out of the line record.  The tempId of a line is kept beside   *)
(* the lines, in tempIds, at the same position.                            *)
(***************************************************************************)
EXTENDS Integers, Sequences, FiniteSets, TLC

VARIABLES
    loading,          \* useState(true), line 60
    error,            \* useState(null), line 62: TRUE once the load failed
    comptes,          \* chart of accounts held for prefix matching, line 46
    selectedJournal,  \* line 49
    selectedPeriode,  \* line 50
    lignes,           \* line 53
    currentRow,       \* line 54
    currentCol,       \* line 55
    totalDebit,       \* line 57 (cents)
    totalCredit,      \* line 58 (cents)
    saving,           \* line 61
    domFocus,         \* the input element holding focus: <<row, col>> or <<>>
    pc,               \* position of the pending validerEcriture call
    pending,          \* payloads of that call not yet handed to create
    calls,            \* payloads handed to create by the latest save, in order
    inFlight,         \* number of create calls issued and not yet returned
    closure,          \* the `lignes` captured by the pending validerEcriture
    tempIds,          \* tempIds[i] is the tempId of lignes[i], line 30
    clock,            \* the latest value read from Date.now(), in milliseconds
    lastOp,           \* the handler that ran last, with its arguments
    steps,            \* number of user events so far
    \* the Django admin inline of admin/js/ecriture_equilibre.js
    adminRows,        \* the rows `.tabular tbody tr`, in document order
    amountType,       \* the type attribute of the amount inputs of the form
    equilibre,        \* what equilibreContainer shows, and its class
    deleteActive,     \* .btn-delete carries the class active
    calcTimer,        \* a setTimeout that ends in calculateEquilibre is pending
    submitted,        \* $('form').submit() was called
    adminOp,          \* the handler of the widget that ran last
    adminSteps        \* number of user events on the admin page so far

\* the state of the transaction entry page
pageVars == <<loading, error, comptes, selectedJournal, selectedPeriode, lignes,
              currentRow, currentCol, totalDebit, totalCredit, saving, domFocus,
              pc, pending, calls, inFlight, closure, tempIds, clock, lastOp,
              steps>>

\* the state of the admin page
adminVars == <<adminRows, amountType, equilibre, deleteActive, calcTimer,
               submitted, adminOp, adminSteps>>

vars == <<pageVars, adminVars>>

-----------------------------------------------------------------------------
(* Bounds of the model *)

MaxLines == 8
MaxSteps == 4
AmountGridLines == 4
LibelleGridLines == 4
ValidGridLines == 6
NavGridLines == 4
PayloadGridLines == 4
SaveEvents == 3
MaxAdminRows == 3
MaxAdminSteps == 3
AdminGridLines == 2

(* Program constants *)

totalCols == 7
Epsilon == 1
AdminEpsilon == 1

-----------------------------------------------------------------------------
(* Text and numbers *)

DigitChars == <<"0", "1", "2", "3", "4", "5", "6", "7", "8", "9">>

DigitVal(ch) == (CHOOSE i \in 1..10 : DigitChars[i] = ch) - 1

Abs(x) == IF x < 0 THEN -x ELSE x

RECURSIVE DigitsVal(_)
DigitsVal(s) ==
    IF s = <<>> THEN 0
    ELSE 10 * DigitsVal(SubSeq(s, 1, Len(s) - 1)) + DigitVal(s[Len(s)])

DotPos(s) ==
    IF \E i \in 1..Len(s) : s[i] = "."
    THEN CHOOSE i \in 1..Len(s) : s[i] = "." /\ \A j \in 1..(i - 1) : s[j] # "."
    ELSE Len(s) + 1

\* parseFloat on the text of a number input (a valid decimal with at most two
\* fraction digits, optionally signed), in cents.
parseFloat(s) ==
    LET neg  == Len(s) > 0 /\ s[1] = "-"
        body == IF neg THEN Tail(s) ELSE s
        p    == DotPos(body)
        int  == SubSeq(body, 1, p - 1)
        frac == SubSeq(body, p + 1, Len(body))
        f2   == IF Len(frac) = 0 THEN <<"0", "0">>
                ELSE IF Len(frac) = 1 THEN frac \o <<"0">>
                ELSE SubSeq(frac, 1, 2)
        mag  == 100 * DigitsVal(int) + DigitsVal(f2)
    IN  IF neg THEN -mag ELSE mag

RECURSIVE NatToDigits(_)
NatToDigits(n) ==
    IF n < 10 THEN <<DigitChars[n + 1]>>
    ELSE NatToDigits(n \div 10) \o <<DigitChars[(n % 10) + 1]>>

\* Number.prototype.toFixed(2) of a non-negative amount given in cents.
toFixed2(c) ==
    NatToDigits(c \div 100) \o <<".">> \o
    <<DigitChars[((c % 100) \div 10) + 1], DigitChars[(c % 10) + 1]>>

\* String.prototype.startsWith
startsWith(code, value) ==
    /\ Len(value) <= Len(code)
    /\ SubSeq(code, 1, Len(value)) = value

\* `s || '0'` followed by parseFloat, lines 286-287 and 363-364
Amount(s) == parseFloat(IF s = <<>> THEN <<"0">> ELSE s)

-----------------------------------------------------------------------------
(* Reference data and the values a user enters *)

LoadedComptes ==
    << [id |-> 1, code |-> <<"4", "0", "1">>],
       [id |-> 2, code |-> <<"6", "0", "1">>],
       [id |-> 3, code |-> <<"6">>] >>

CompteInputs == { <<"6">>, <<"x">> }
LibelleInputs == { "", "A", "B" }
AmountInputs == { <<>>, <<"1">>, <<"1", ".", "5", "0">> }
SelectInputs == { "", "1" }

NoFocus == <<>>

-----------------------------------------------------------------------------
(* Lines *)

NewHeader ==
    [isHeader |-> TRUE, compte |-> <<>>, compteId |-> 0, libelle |-> "",
     debit |-> <<>>, credit |-> <<>>]

NewDetail(lib) ==
    [isHeader |-> FALSE, compte |-> <<>>, compteId |-> 0, libelle |-> lib,
     debit |-> <<>>, credit |-> <<>>]

\* the two lines built by addNewEcriture
newEcriture == <<NewHeader, NewDetail("")>>

Line(r) == lignes[r + 1]

\* Focusable with the debit and credit inputs of a header row enabled
FocusableSansDisabled(ls, r, c) ==
    /\ r \in 0..(Len(ls) - 1)
    /\ c \in 0..(totalCols - 1)
    /\ (c = 0 => ls[r + 1].isHeader)

\* The cell (r, c) of the grid `ls` renders an input that can take focus: the
\* date input exists on header rows only, and the debit and credit inputs of
\* a header row are disabled.
Focusable(ls, r, c) ==
    /\ r \in 0..(Len(ls) - 1)
    /\ c \in 0..(totalCols - 1)
    /\ (c = 0 => ls[r + 1].isHeader)
    /\ (c \in {5, 6} => ~ls[r + 1].isHeader)

-----------------------------------------------------------------------------
(* Totals: the effect of lines 280-293, run after every change of lignes *)

RECURSIVE SumDebit(_)
SumDebit(ls) ==
    IF ls = <<>> THEN 0
    ELSE LET l == ls[Len(ls)]
         IN  SumDebit(SubSeq(ls, 1, Len(ls) - 1))
               + (IF l.isHeader THEN 0 ELSE Amount(l.debit))

\* SumCredit reading the debit field of each line
RECURSIVE SumCreditOfDebit(_)
SumCreditOfDebit(ls) ==
    IF ls = <<>> THEN 0
    ELSE LET l == ls[Len(ls)]
         IN  SumCreditOfDebit(SubSeq(ls, 1, Len(ls) - 1))
               + (IF l.isHeader THEN 0 ELSE Amount(l.debit))

RECURSIVE SumCredit(_)
SumCredit(ls) ==
    IF ls = <<>> THEN 0
    ELSE LET l == ls[Len(ls)]
         IN  SumCredit(SubSeq(ls, 1, Len(ls) - 1))
               + (IF l.isHeader THEN 0 ELSE Amount(l.credit))

Recompute ==
    /\ totalDebit' = SumDebit(lignes')
    /\ totalCredit' = SumCredit(lignes')

\* Math.abs(totalDebit - totalCredit) < 0.01, lines 298, 332, 475, 647
Balanced(td, tc) == Abs(td - tc) < Epsilon

-----------------------------------------------------------------------------
(* The lines captured by a pending validerEcriture (the `lignes` of the      *)
(* render in which it was called).  Per captured entry: `at` is the 1-based  *)
(* position where the captured object still sits in lignes, 0 once updateCell *)
(* replaced it there by a copy; `own` is the value of the object, read only  *)
(* when `at` is 0 (while the object is shared, in-place writes reach it and  *)
(* its value is the one in lignes); `pos` is the 1-based position in lignes  *)
(* of the line with the same tempId, which a copy keeps.                     *)

Capture(ls) == [i \in 1..Len(ls) |-> [own |-> ls[i], at |-> i, pos |-> i]]

\* a line was spliced in at 1-based position k
ClosureInsert(cl, k) ==
    [i \in 1..Len(cl) |->
        [own |-> cl[i].own,
         at  |-> IF cl[i].at >= k THEN cl[i].at + 1 ELSE cl[i].at,
         pos |-> IF cl[i].pos >= k THEN cl[i].pos + 1 ELSE cl[i].pos]]

\* the object at 1-based position k was replaced by a copy; `old` is the object
ClosureReplace(cl, k, old) ==
    [i \in 1..Len(cl) |->
        IF cl[i].at = k THEN [own |-> old, at |-> 0, pos |-> cl[i].pos]
        ELSE cl[i]]

\* the captured array as it reads now, given the current lines
ClosureLines(cl, ls) ==
    [i \in 1..Len(cl) |-> IF cl[i].at = 0 THEN cl[i].own ELSE ls[cl[i].at]]

\* where the focused input is once the rows are rendered from the captured
\* array again: its row keeps its key, or it was added since and is unmounted
FocusAfterReset(cl, f) ==
    IF f = NoFocus THEN NoFocus
    ELSE IF \E i \in 1..Len(cl) : cl[i].pos = f[1] + 1
         THEN <<(CHOOSE i \in 1..Len(cl) : cl[i].pos = f[1] + 1) - 1, f[2]>>
         ELSE NoFocus

-----------------------------------------------------------------------------
(* Transient identifiers, lines 124, 136, 153 *)

\* Date.now().toString()
TempId(t) == <<t, "">>

\* Date.now().toString() + '_1'
TempId1(t) == <<t, "_1">>

\* what Date.now() may return: the millisecond of the previous reading when
\* the clock has not advanced since, or a later one
ClockReadings == { clock, clock + 1 }

Ids == <<tempIds, clock>>

\* the identifiers after addNewEcriture ran at time t
StampEcriture(ids, t) == ids \o <<TempId(t), TempId1(t)>>

\* the identifiers after addLigneToCurrentEcriture, at time t, spliced its
\* line in at the 0-based index k
StampLigne(ids, k, t) ==
    SubSeq(ids, 1, k) \o <<TempId(t)>> \o SubSeq(ids, k + 1, Len(ids))

\* the identifiers of the captured array: a line keeps its tempId
ClosureIds(cl, ids) == [i \in 1..Len(cl) |-> ids[cl[i].pos]]

-----------------------------------------------------------------------------
\* the record kept in lastOp; `note` tells which branch the handler took and
\* `value` is the text an account input handed to its handler
OpN(name, r, c, n) ==
    [op |-> name, row |-> r, col |-> c, note |-> n, value |-> <<>>]

Op(name, r, c) == OpN(name, r, c, "")

\* the component as constructed, lines 45-62
MountedPage ==
    /\ loading = TRUE
    /\ error = FALSE
    /\ comptes = <<>>
    /\ selectedJournal = ""
    /\ selectedPeriode = ""
    /\ lignes = <<>>
    /\ currentRow = 0
    /\ currentCol = 0
    /\ totalDebit = 0
    /\ totalCredit = 0
    /\ saving = FALSE
    /\ domFocus = NoFocus
    /\ pc = "idle"
    /\ pending = <<>>
    /\ calls = <<>>
    /\ inFlight = 0
    /\ closure = <<>>
    /\ tempIds = <<>>
    /\ clock = 0
    /\ lastOp = Op("init", 0, 0)
    /\ steps = 0

\* the zone createEquilibreZone builds, admin/js/ecriture_equilibre.js
\* lines 258-270: totals at 0,00, no indicator, no class
NewZone ==
    [totalDebit |-> 0, totalCredit |-> 0, difference |-> 0,
     indicator |-> "", cls |-> ""]

\* the admin page is not open: nothing of the widget is initialised
AdminClosed ==
    /\ adminRows = <<>>
    /\ amountType = "text"
    /\ equilibre = NewZone
    /\ deleteActive = FALSE
    /\ calcTimer = FALSE
    /\ submitted = FALSE
    /\ adminOp = [op |-> "closed", row |-> 0]
    /\ adminSteps = 0

Mounted == MountedPage /\ AdminClosed

\* the grid is rendered and takes user events (lines 395-396)
Ready == ~loading /\ ~error

UserEvent ==
    /\ Ready
    /\ steps < MaxSteps
    /\ steps' = steps + 1
    /\ UNCHANGED adminVars

SaveVars == <<saving, pc, pending, calls, inFlight>>

-----------------------------------------------------------------------------
(* loadInitialData, lines 80-118 *)

loadInitialData ==
    /\ loading
    /\ \/ \E per \in SelectInputs :
            /\ comptes' = LoadedComptes
            /\ selectedPeriode' = per
            /\ lignes' = lignes \o newEcriture
            /\ \E t \in ClockReadings :
                  clock' = t /\ tempIds' = StampEcriture(tempIds, t)
            /\ Recompute
            /\ error' = FALSE
       \/ /\ error' = TRUE
          /\ UNCHANGED <<comptes, selectedPeriode, lignes, totalDebit, totalCredit>>
          /\ UNCHANGED Ids
    /\ loading' = FALSE
    /\ lastOp' = Op("load", 0, 0)
    /\ UNCHANGED <<selectedJournal, currentRow, currentCol, domFocus, closure,
                   steps>>
    /\ UNCHANGED SaveVars
    /\ UNCHANGED adminVars

-----------------------------------------------------------------------------
(* Grid operations on values *)

\* addNewEcriture appending the header line alone
addNewEcritureSansLigne(ls) == ls \o <<NewHeader>>

\* addNewEcriture, lines 121-148: setLignes([...lignes, ...newEcriture])
addNewEcriture(ls) == ls \o newEcriture

\* the while loop of lines 164-167, as a 0-based index
RECURSIVE ScanToHeader(_, _)
ScanToHeader(ls, i) ==
    IF i < Len(ls) /\ ~ls[i + 1].isHeader THEN ScanToHeader(ls, i + 1) ELSE i

\* insertIndex with the scan started on the focused row itself
insertIndexFromRow(ls, cr) == ScanToHeader(ls, cr)

insertIndex(ls, cr) == ScanToHeader(ls, cr + 1)

\* addLigneToCurrentEcriture, lines 151-172; cr is the tracked currentRow
addLigneToCurrentEcriture(ls, cr) ==
    LET k == insertIndex(ls, cr)
    IN  SubSeq(ls, 1, k) \o <<NewDetail(ls[cr + 1].libelle)>>
          \o SubSeq(ls, k + 1, Len(ls))

\* the propagation loop of lines 254-260: rows after `row` up to the next header
RECURSIVE Propagate(_, _, _, _)
Propagate(ls, i, prior, value) ==
    IF i < Len(ls) /\ ~ls[i + 1].isHeader
    THEN Propagate(
            IF ls[i + 1].libelle = "" \/ ls[i + 1].libelle = prior
            THEN [ls EXCEPT ![i + 1].libelle = value] ELSE ls,
            i + 1, prior, value)
    ELSE ls

\* updateCell comparing each detail line with the header's new description
updateCellNewValue(ls, row, field, value) ==
    LET set == [ls EXCEPT ![row + 1] = [@ EXCEPT ![field] = value]]
    IN  IF field = "libelle" /\ ls[row + 1].isHeader
        THEN Propagate(set, row + 1, value, value)
        ELSE set

\* updateCell, lines 248-264
updateCell(ls, row, field, value) ==
    LET set == [ls EXCEPT ![row + 1] = [@ EXCEPT ![field] = value]]
    IN  IF field = "libelle" /\ ls[row + 1].isHeader
        THEN Propagate(set, row + 1, ls[row + 1].libelle, value)
        ELSE set

\* comptes.find(c => c.code.startsWith(value)), line 271: 0 when none
FindCompte(cs, value) ==
    IF \E i \in 1..Len(cs) : startsWith(cs[i].code, value)
    THEN cs[CHOOSE i \in 1..Len(cs) :
                /\ startsWith(cs[i].code, value)
                /\ \A j \in 1..(i - 1) : ~startsWith(cs[j].code, value)].id
    ELSE 0

\* handleCompteSearch, lines 267-277.  updateCell queues setLignes(copy with
\* the typed code); on a match the handler then builds [...lignes] from the
\* array of its own render, writes compteId into the old object of the row and
\* queues setLignes with that array, which is the one React keeps.
handleCompteSearch(ls, cs, row, value) ==
    LET found == FindCompte(cs, value)
    IN  IF found # 0
        THEN [ls EXCEPT ![row + 1].compteId = found]
        ELSE updateCell(ls, row, "compte", value)

\* a detail line the user has touched, line 303
Touched(l) ==
    ~l.isHeader /\ (l.compte # <<>> \/ l.debit # <<>> \/ l.credit # <<>>)

\* the scan run forward: the first line that qualifies
firstIndex(ls) ==
    IF \E i \in 1..Len(ls) : Touched(ls[i])
    THEN (CHOOSE i \in 1..Len(ls) :
            Touched(ls[i]) /\ \A j \in 1..(i - 1) : ~Touched(ls[j])) - 1
    ELSE -1

\* the backward scan of lines 301-307, 0-based; -1 when no line qualifies
lastIndex(ls) ==
    IF \E i \in 1..Len(ls) : Touched(ls[i])
    THEN (CHOOSE i \in 1..Len(ls) :
            Touched(ls[i]) /\ \A j \in (i + 1)..Len(ls) : ~Touched(ls[j])) - 1
    ELSE -1

\* equilibrerEcriture without the early return of line 298
equilibrerSansRetour(ls, td, tc) ==
    LET ecart == td - tc
        li    == lastIndex(ls)
    IN  IF li = -1 THEN ls
        ELSE IF ecart > 0
             THEN [ls EXCEPT ![li + 1].credit = toFixed2(ecart),
                             ![li + 1].debit = <<>>]
             ELSE [ls EXCEPT ![li + 1].debit = toFixed2(Abs(ecart)),
                             ![li + 1].credit = <<>>]

\* equilibrerEcriture also emptying the amounts of the first touched line
equilibrerDeuxLignes(ls, td, tc) ==
    LET ecart == td - tc
        li    == lastIndex(ls)
        fi    == firstIndex(ls)
        vide  == IF fi # li
                 THEN [ls EXCEPT ![fi + 1].debit = <<>>, ![fi + 1].credit = <<>>]
                 ELSE ls
    IN  IF Abs(ecart) < Epsilon THEN ls
        ELSE IF li = -1 THEN ls
        ELSE IF ecart > 0
             THEN [vide EXCEPT ![li + 1].credit = toFixed2(ecart),
                               ![li + 1].debit = <<>>]
             ELSE [vide EXCEPT ![li + 1].debit = toFixed2(Abs(ecart)),
                               ![li + 1].credit = <<>>]

\* equilibrerEcriture, lines 296-323: the lines it leaves
equilibrerEcriture(ls, td, tc) ==
    LET ecart == td - tc
        li    == lastIndex(ls)
    IN  IF Abs(ecart) < Epsilon THEN ls
        ELSE IF li = -1 THEN ls
        ELSE IF ecart > 0
             THEN [ls EXCEPT ![li + 1].credit = toFixed2(ecart),
                             ![li + 1].debit = <<>>]
             ELSE [ls EXCEPT ![li + 1].debit = toFixed2(Abs(ecart)),
                             ![li + 1].credit = <<>>]

\* the branch equilibrerEcriture takes: the early returns of lines 298 and
\* 309, or the side it writes
equilibrerBranch(ls, td, tc) ==
    IF Abs(td - tc) < Epsilon THEN "balanced"
    ELSE IF lastIndex(ls) = -1 THEN "untouched"
    ELSE IF td - tc > 0 THEN "credit"
    ELSE "debit"

-----------------------------------------------------------------------------
(* Focus *)

\* the focused input stays with its line when a line is spliced in above it
\* (rows are keyed by tempId, line 498); k is the 0-based insertion index
FocusAfterInsert(f, k) ==
    IF f # NoFocus /\ f[1] >= k THEN <<f[1] + 1, f[2]>> ELSE f

\* the effect of lines 241-245, run when currentRow or currentCol changed:
\* f is where the DOM focus is before the effect
FocusEffect(ls, f, row, col) ==
    IF (row # currentRow \/ col # currentCol) /\ Focusable(ls, row, col)
    THEN <<row, col>>
    ELSE f

\* onFocus of an input, e.g. line 517: the user clicks into cell (r, c)
ClickCell(r, c) ==
    /\ UserEvent
    /\ Focusable(lignes, r, c)
    /\ domFocus # <<r, c>>
    /\ currentRow' = r
    /\ currentCol' = c
    /\ domFocus' = <<r, c>>
    /\ lastOp' = Op("click", r, c)
    /\ UNCHANGED <<loading, error, comptes, selectedJournal, selectedPeriode,
                   lignes, totalDebit, totalCredit, closure>>
    /\ UNCHANGED Ids
    /\ UNCHANGED SaveVars

\* what a key handler or an edit leaves: the lines ls, the tracked cell
\* (row, col), and k, the 0-based index where a line was spliced in (-1: none)
Commit(ls, row, col, k) ==
    /\ lignes' = ls
    /\ Recompute
    /\ currentRow' = row
    /\ currentCol' = col
    /\ domFocus' = FocusEffect(ls, IF k >= 0 THEN FocusAfterInsert(domFocus, k)
                                    ELSE domFocus, row, col)
    /\ closure' = IF k >= 0 THEN ClosureInsert(closure, k + 1) ELSE closure
    /\ IF k >= 0
       THEN \E t \in ClockReadings :
                clock' = t /\ tempIds' = StampLigne(tempIds, k, t)
       ELSE IF Len(ls) > Len(lignes)
       THEN \E t \in ClockReadings :
                clock' = t /\ tempIds' = StampEcriture(tempIds, t)
       ELSE UNCHANGED Ids
    /\ UNCHANGED <<loading, error, comptes, selectedJournal, selectedPeriode>>
    /\ UNCHANGED SaveVars

\* a key went down in the focused input, which passes its own (row, col)
KeyEvent == UserEvent /\ domFocus # NoFocus

CanGrow(n) == Len(lignes) + n <= MaxLines

-----------------------------------------------------------------------------
(* handleKeyDown, lines 175-238 *)

\* TabForward taking the last row for a row that has a next one
TabForwardPastEnd(row, col) ==
    IF col < totalCols - 1
    THEN /\ lastOp' = Op("Tab", row, col)
         /\ Commit(lignes, currentRow, col + 1, -1)
    ELSE /\ lastOp' = Op("Tab", row, col)
         /\ Commit(lignes, row + 1, 0, -1)

\* case 'Tab' without shift, lines 190-201, from the input of cell (row, col)
TabForward(row, col) ==
    IF col < totalCols - 1
    THEN /\ lastOp' = Op("Tab", row, col)
         /\ Commit(lignes, currentRow, col + 1, -1)
    ELSE IF row < Len(lignes) - 1
    THEN /\ lastOp' = Op("Tab", row, col)
         /\ Commit(lignes, row + 1, 0, -1)
    ELSE /\ CanGrow(1)
         /\ lastOp' = OpN("Tab", row, col, "append")
         /\ Commit(addLigneToCurrentEcriture(lignes, currentRow),
                   row + 1, 0, insertIndex(lignes, currentRow))

KeyTab ==
    /\ KeyEvent
    /\ TabForward(domFocus[1], domFocus[2])

\* case 'Tab' with shift, lines 181-188
KeyShiftTab ==
    /\ KeyEvent
    /\ LET row == domFocus[1]
           col == domFocus[2]
       IN  /\ lastOp' = Op("ShiftTab", row, col)
           /\ IF col > 0
              THEN Commit(lignes, currentRow, col - 1, -1)
              ELSE IF row > 0
              THEN Commit(lignes, row - 1, totalCols - 1, -1)
              ELSE Commit(lignes, currentRow, currentCol, -1)

\* case 'Enter', lines 205-214
KeyEnter ==
    /\ KeyEvent
    /\ LET row == domFocus[1]
           col == domFocus[2]
       IN  IF row < Len(lignes) - 1
           THEN /\ lastOp' = Op("Enter", row, col)
                /\ Commit(lignes, row + 1, currentCol, -1)
           ELSE /\ CanGrow(1)
                /\ lastOp' = OpN("Enter", row, col, "append")
                /\ Commit(addLigneToCurrentEcriture(lignes, currentRow),
                          row + 1, 0, insertIndex(lignes, currentRow))

\* case 'ArrowUp', lines 216-220
KeyArrowUp ==
    /\ KeyEvent
    /\ LET row == domFocus[1]
           col == domFocus[2]
       IN  /\ lastOp' = Op("ArrowUp", row, col)
           /\ IF row > 0
              THEN Commit(lignes, row - 1, currentCol, -1)
              ELSE Commit(lignes, currentRow, currentCol, -1)

\* case 'ArrowDown', lines 222-226
KeyArrowDown ==
    /\ KeyEvent
    /\ LET row == domFocus[1]
           col == domFocus[2]
       IN  /\ lastOp' = Op("ArrowDown", row, col)
           /\ IF row < Len(lignes) - 1
              THEN Commit(lignes, row + 1, currentCol, -1)
              ELSE Commit(lignes, currentRow, currentCol, -1)

\* F2 moving the tracked focus to the header of the new transaction
KeyF2SuitEcriture ==
    /\ KeyEvent
    /\ CanGrow(2)
    /\ lastOp' = Op("F2", domFocus[1], domFocus[2])
    /\ Commit(addNewEcriture(lignes), Len(lignes), 0, -1)

\* case 'F2', lines 228-231
KeyF2 ==
    /\ KeyEvent
    /\ CanGrow(2)
    /\ lastOp' = Op("F2", domFocus[1], domFocus[2])
    /\ Commit(addNewEcriture(lignes), currentRow, currentCol, -1)

\* case 'F5', lines 233-236
KeyF5 ==
    /\ KeyEvent
    /\ lastOp' = OpN("F5", domFocus[1], domFocus[2],
                      equilibrerBranch(lignes, totalDebit, totalCredit))
    /\ Commit(equilibrerEcriture(lignes, totalDebit, totalCredit),
              currentRow, currentCol, -1)

-----------------------------------------------------------------------------
(* onChange of the focused input, lines 553, 590, 607, 626 *)

\* the account input: handleCompteSearch
TypeCompte ==
    /\ UserEvent
    /\ domFocus # NoFocus
    /\ domFocus[2] = 2
    /\ \E v \in CompteInputs :
        LET row == domFocus[1]
        IN  /\ v # Line(row).compte
            /\ lastOp' = [Op("compte", row, 2) EXCEPT !.value = v]
            /\ lignes' = handleCompteSearch(lignes, comptes, row, v)
            /\ closure' = IF FindCompte(comptes, v) # 0 THEN closure
                          ELSE ClosureReplace(closure, row + 1, Line(row))
    /\ Recompute
    /\ UNCHANGED <<loading, error, comptes, selectedJournal, selectedPeriode,
                   currentRow, currentCol, domFocus>>
    /\ UNCHANGED Ids
    /\ UNCHANGED SaveVars

\* the description input: updateCell(rowIndex, 'libelle', value)
TypeLibelle ==
    /\ UserEvent
    /\ domFocus # NoFocus
    /\ domFocus[2] = 4
    /\ \E v \in LibelleInputs :
        LET row == domFocus[1]
        IN  /\ v # Line(row).libelle
            /\ lastOp' = OpN("libelle", row, 4, Line(row).libelle)
            /\ lignes' = updateCell(lignes, row, "libelle", v)
            /\ closure' = ClosureReplace(closure, row + 1, Line(row))
    /\ Recompute
    /\ UNCHANGED <<loading, error, comptes, selectedJournal, selectedPeriode,
                   currentRow, currentCol, domFocus>>
    /\ UNCHANGED Ids
    /\ UNCHANGED SaveVars

\* the debit and credit inputs: updateCell(rowIndex, 'debit' | 'credit', value)
TypeAmount ==
    /\ UserEvent
    /\ domFocus # NoFocus
    /\ domFocus[2] \in {5, 6}
    /\ \E v \in AmountInputs :
        LET row   == domFocus[1]
            field == IF domFocus[2] = 5 THEN "debit" ELSE "credit"
        IN  /\ v # Line(row)[field]
            /\ lastOp' = Op(field, row, domFocus[2])
            /\ lignes' = updateCell(lignes, row, field, v)
            /\ closure' = ClosureReplace(closure, row + 1, Line(row))
    /\ Recompute
    /\ UNCHANGED <<loading, error, comptes, selectedJournal, selectedPeriode,
                   currentRow, currentCol, domFocus>>
    /\ UNCHANGED Ids
    /\ UNCHANGED SaveVars

-----------------------------------------------------------------------------
(* The toolbar: the two selects and the buttons, lines 403-479.  Using one   *)
(* takes the focus away from the grid's inputs.                              *)

SelectJournal ==
    /\ UserEvent
    /\ \E v \in SelectInputs : v # selectedJournal /\ selectedJournal' = v
    /\ domFocus' = NoFocus
    /\ lastOp' = Op("journal", 0, 0)
    /\ UNCHANGED Ids
    /\ UNCHANGED <<loading, error, comptes, selectedPeriode, lignes, currentRow,
                   currentCol, totalDebit, totalCredit, closure>>
    /\ UNCHANGED SaveVars

SelectPeriode ==
    /\ UserEvent
    /\ \E v \in SelectInputs : v # selectedPeriode /\ selectedPeriode' = v
    /\ domFocus' = NoFocus
    /\ lastOp' = Op("periode", 0, 0)
    /\ UNCHANGED Ids
    /\ UNCHANGED <<loading, error, comptes, selectedJournal, lignes, currentRow,
                   currentCol, totalDebit, totalCredit, closure>>
    /\ UNCHANGED SaveVars

\* onClick={addNewEcriture}, line 438
ClickNouvelle ==
    /\ UserEvent
    /\ CanGrow(2)
    /\ lignes' = addNewEcriture(lignes)
    /\ \E t \in ClockReadings :
          clock' = t /\ tempIds' = StampEcriture(tempIds, t)
    /\ Recompute
    /\ domFocus' = NoFocus
    /\ lastOp' = Op("nouvelle", 0, 0)
    /\ UNCHANGED <<loading, error, comptes, selectedJournal, selectedPeriode,
                   currentRow, currentCol, closure>>
    /\ UNCHANGED SaveVars

\* onClick={equilibrerEcriture}, line 452
ClickEquilibrer ==
    /\ UserEvent
    /\ lignes' = equilibrerEcriture(lignes, totalDebit, totalCredit)
    /\ UNCHANGED Ids
    /\ Recompute
    /\ domFocus' = NoFocus
    /\ lastOp' = OpN("equilibrer", 0, 0,
                      equilibrerBranch(lignes, totalDebit, totalCredit))
    /\ UNCHANGED <<loading, error, comptes, selectedJournal, selectedPeriode,
                   currentRow, currentCol, closure>>
    /\ UNCHANGED SaveVars

-----------------------------------------------------------------------------
(* validerEcriture, lines 326-393 *)

\* the payload opened by a header line, lines 349-357; `src` records the row
\* of that header and `row` the row a detail entry was built from
NewPayload(l, r) == [src |-> r, libelle |-> l.libelle, lignes_data |-> <<>>]

\* the entry pushed for a detail line, lines 360-366
PayloadLine(l, r) ==
    [row |-> r, compte |-> l.compteId, libelle |-> l.libelle,
     montant_debit |-> Amount(l.debit), montant_credit |-> Amount(l.credit)]

\* line 344, `currentEcriture && currentEcriture.lignes.length >= 2`, met with
\* a payload already open: the payload has lignes_data and no lignes, so
\* reading .length of undefined throws a TypeError
PreviousThrows(cur) == cur # <<>>

\* the callback of lignes.forEach, lines 341-368, on the line l of row r;
\* cur holds the open payload (currentEcriture), or nothing
GroupStep(st, l, r) ==
    IF st.threw THEN st
    ELSE IF l.isHeader /\ l.compte # <<>>
    THEN IF PreviousThrows(st.cur)
         THEN [st EXCEPT !.threw = TRUE]
         ELSE [st EXCEPT !.cur = <<NewPayload(l, r)>>]
    ELSE IF st.cur # <<>> /\ l.compte # <<>> /\ l.compteId # 0
    THEN [st EXCEPT !.cur[1].lignes_data = Append(@, PayloadLine(l, r))]
    ELSE st

RECURSIVE GroupScan(_, _)
GroupScan(ls, n) ==
    IF n = 0 THEN [ecritures |-> <<>>, cur |-> <<>>, threw |-> FALSE]
    ELSE GroupStep(GroupScan(ls, n - 1), ls[n], n - 1)

\* lines 338-373: the payloads to submit, or the exception of the scan
Grouper(ls) ==
    LET st == GroupScan(ls, Len(ls))
    IN  IF st.threw THEN [threw |-> TRUE, ecritures |-> <<>>]
        ELSE IF st.cur # <<>> /\ Len(st.cur[1].lignes_data) >= 2
        THEN [threw |-> FALSE, ecritures |-> st.ecritures \o st.cur]
        ELSE [threw |-> FALSE, ecritures |-> st.ecritures]

\* the preconditions without the test of the journal
RejectedSansJournal(journal, periode, td, tc) ==
    \/ periode = ""
    \/ Abs(td - tc) >= Epsilon

\* the preconditions of lines 327-335
Rejected(journal, periode, td, tc) ==
    \/ journal = "" \/ periode = ""
    \/ Abs(td - tc) >= Epsilon

\* the Valider button disabled on an unbalanced grid only
ValiderDisabledSansSaving == Abs(totalDebit - totalCredit) >= Epsilon

\* disabled={saving || Math.abs(totalDebit - totalCredit) >= 0.01}, line 475
ValiderDisabled == saving \/ Abs(totalDebit - totalCredit) >= Epsilon

\* lines 385-386 after the last create returned: setLignes([]) is followed by
\* addNewEcriture(), which sets [...lignes, ...newEcriture] with the lignes of
\* the render validerEcriture was called in (the array `captured`)
ResetLines(captured) == addNewEcriture(captured)

\* a click on the Valider button, line 466.  A disabled button takes no click.
ClickValider ==
    /\ UserEvent
    /\ domFocus' = NoFocus
    /\ UNCHANGED <<loading, error, comptes, selectedJournal, selectedPeriode,
                   currentRow, currentCol>>
    /\ IF ValiderDisabled
       THEN /\ lastOp' = Op("valider_disabled", 0, 0)
            /\ UNCHANGED <<lignes, totalDebit, totalCredit, closure>>
            /\ UNCHANGED Ids
            /\ UNCHANGED SaveVars
       ELSE IF Rejected(selectedJournal, selectedPeriode, totalDebit, totalCredit)
       THEN /\ lastOp' = Op("valider_rejected", 0, 0)
            /\ UNCHANGED <<lignes, totalDebit, totalCredit, closure>>
            /\ UNCHANGED Ids
            /\ UNCHANGED SaveVars
       ELSE LET g == Grouper(lignes)
            IN  IF g.threw
                THEN /\ lastOp' = Op("valider_threw", 0, 0)
                     /\ UNCHANGED <<lignes, totalDebit, totalCredit, closure>>
                     /\ UNCHANGED Ids
                     /\ UNCHANGED SaveVars
                ELSE IF g.ecritures = <<>>
                THEN \* the loop awaits nothing: the handler runs to its end
                     /\ CanGrow(2)
                     /\ lastOp' = Op("valider_saved", 0, 0)
                     /\ lignes' = ResetLines(lignes)
                     /\ \E t \in ClockReadings :
                           clock' = t /\ tempIds' = StampEcriture(tempIds, t)
                     /\ Recompute
                     /\ calls' = <<>>
                     /\ UNCHANGED <<saving, pc, pending, inFlight, closure>>
                ELSE /\ lastOp' = Op("valider_started", 0, 0)
                     /\ saving' = TRUE
                     /\ pc' = "awaiting"
                     /\ calls' = <<Head(g.ecritures)>>
                     /\ pending' = Tail(g.ecritures)
                     /\ inFlight' = inFlight + 1
                     /\ closure' = Capture(lignes)
                     /\ UNCHANGED <<lignes, totalDebit, totalCredit>>
                     /\ UNCHANGED Ids

\* `await ecrituresService.create(ecriture)` resolves, lines 378-380
CreateResolves ==
    /\ pc = "awaiting"
    /\ inFlight = 1
    /\ UNCHANGED adminVars
    /\ UNCHANGED <<loading, error, comptes, selectedJournal, selectedPeriode,
                   currentRow, currentCol, steps>>
    /\ IF pending # <<>>
       THEN /\ lastOp' = Op("create_next", 0, 0)
            /\ calls' = Append(calls, Head(pending))
            /\ pending' = Tail(pending)
            /\ UNCHANGED <<lignes, totalDebit, totalCredit, saving, pc, inFlight,
                           closure, domFocus>>
            /\ UNCHANGED Ids
       ELSE /\ Len(closure) + 2 <= MaxLines
            /\ lastOp' = Op("create_saved", 0, 0)
            /\ lignes' = ResetLines(ClosureLines(closure, lignes))
            /\ \E t \in ClockReadings :
                  clock' = t
                    /\ tempIds' = StampEcriture(ClosureIds(closure, tempIds), t)
            /\ Recompute
            /\ domFocus' = FocusAfterReset(closure, domFocus)
            /\ saving' = FALSE
            /\ pc' = "idle"
            /\ inFlight' = 0
            /\ closure' = <<>>
            /\ UNCHANGED <<pending, calls>>

\* CreateRejects without the finally block: the saving flag stays up
CreateRejectsSansFinally ==
    /\ pc = "awaiting"
    /\ inFlight = 1
    /\ UNCHANGED adminVars
    /\ lastOp' = Op("create_failed", 0, 0)
    /\ pc' = "idle"
    /\ inFlight' = 0
    /\ pending' = <<>>
    /\ closure' = <<>>
    /\ UNCHANGED <<loading, error, comptes, selectedJournal, selectedPeriode,
                   lignes, currentRow, currentCol, totalDebit, totalCredit,
                   domFocus, calls, steps, saving>>
    /\ UNCHANGED Ids

\* CreateRejects running the reset of the success path before it ends
CreateRejectsAndResets ==
    /\ pc = "awaiting"
    /\ inFlight = 1
    /\ UNCHANGED adminVars
    /\ Len(closure) + 2 <= MaxLines
    /\ lastOp' = Op("create_failed", 0, 0)
    /\ lignes' = ResetLines(ClosureLines(closure, lignes))
    /\ \E t \in ClockReadings :
          clock' = t /\ tempIds' = StampEcriture(ClosureIds(closure, tempIds), t)
    /\ Recompute
    /\ domFocus' = FocusAfterReset(closure, domFocus)
    /\ saving' = FALSE
    /\ pc' = "idle"
    /\ inFlight' = 0
    /\ pending' = <<>>
    /\ closure' = <<>>
    /\ UNCHANGED <<loading, error, comptes, selectedJournal, selectedPeriode,
                   currentRow, currentCol, calls, steps>>

\* `await ecrituresService.create(ecriture)` rejects, lines 388-392
CreateRejects ==
    /\ pc = "awaiting"
    /\ inFlight = 1
    /\ UNCHANGED adminVars
    /\ lastOp' = Op("create_failed", 0, 0)
    /\ saving' = FALSE
    /\ pc' = "idle"
    /\ inFlight' = 0
    /\ pending' = <<>>
    /\ closure' = <<>>
    /\ UNCHANGED <<loading, error, comptes, selectedJournal, selectedPeriode,
                   lignes, currentRow, currentCol, totalDebit, totalCredit,
                   domFocus, calls, steps>>
    /\ UNCHANGED Ids

-----------------------------------------------------------------------------
(* Sessions in progress.  The grids below are grids a session reaches: the   *)
(* structure by F2 and by Tab or Enter on the last row, every field by an    *)
(* edit of its input (an account code that matches no account is stored as   *)
(* typed, one that matches stores the identifier of the match and leaves the *)
(* code), the focus by a click into a cell or on the toolbar.                *)

\* the grids of exactly n lines: a header first, a detail after every header
RECURSIVE GridsOfLen(_, _, _)
GridsOfLen(H, D, n) ==
    IF n = 0 THEN { <<>> }
    ELSE IF n = 1 THEN {}
    ELSE { g \o <<d>> : g \in GridsOfLen(H, D, n - 1), d \in D }
         \cup { g \o <<h, d>> : g \in GridsOfLen(H, D, n - 2), h \in H, d \in D }

GridsUpTo(H, D, n) == UNION { GridsOfLen(H, D, k) : k \in 2..n }

Detail(cpt, id, lib, deb, cre) ==
    [isHeader |-> FALSE, compte |-> cpt, compteId |-> id, libelle |-> lib,
     debit |-> deb, credit |-> cre]

Header(cpt, lib) == [NewHeader EXCEPT !.compte = cpt, !.libelle = lib]

\* grids that differ in their amounts
AmountGrids ==
    GridsUpTo({ NewHeader },
              { NewDetail(""),
                Detail(<<"x">>, 0, "", <<>>, <<>>),
                Detail(<<>>, 0, "", <<"1">>, <<>>),
                Detail(<<>>, 0, "", <<>>, <<"1">>),
                Detail(<<>>, 0, "", <<"1", ".", "5", "0">>, <<>>),
                Detail(<<>>, 0, "", <<"0">>, <<"1", ".", "5", "0">>) },
              AmountGridLines)

\* grids that differ in their descriptions
LibelleGrids ==
    GridsUpTo({ Header(<<>>, lib) : lib \in LibelleInputs },
              { NewDetail(lib) : lib \in LibelleInputs },
              LibelleGridLines)

\* grids that differ in which lines carry an account code and a resolved account
ValidGrids ==
    GridsUpTo({ NewHeader, Header(<<"x">>, "") },
              { NewDetail(""), Detail(<<"x">>, 2, "", <<>>, <<>>) },
              ValidGridLines)

\* grids of transactions with an account code on the header, whose detail
\* lines differ in their amounts and in whether their account is resolved
PayloadGrids ==
    GridsUpTo({ Header(<<"x">>, "") },
              { Detail(<<"x">>, 2, "", <<>>, <<>>),
                Detail(<<"x">>, 2, "", <<"1">>, <<>>),
                Detail(<<"x">>, 2, "", <<>>, <<"1">>),
                Detail(<<"x">>, 0, "", <<>>, <<"1">>) },
              PayloadGridLines)

\* grids that differ in their structure only
NavGrids == GridsUpTo({ NewHeader }, { NewDetail("") }, NavGridLines)

FocusableCells(ls) ==
    { f \in (0..(Len(ls) - 1)) \X (0..(totalCols - 1)) :
        Focusable(ls, f[1], f[2]) }

Session(ls, f, j, p) == [lignes |-> ls, focus |-> f, journal |-> j, periode |-> p]

\* no input focused (the toolbar was used last), or an amount of the last row
AmountCells(g) == { NoFocus, <<Len(g) - 1, 5>>, <<Len(g) - 1, 6>> }

LibelleCells(g) == { f \in FocusableCells(g) : f[2] = 4 }

ToolbarOnly(g) == { NoFocus }

\* the cells the focus may be on, by kind of session
CellsOf(kind, g) ==
    CASE kind = "amount"  -> AmountCells(g)
      [] kind = "libelle" -> LibelleCells(g)
      [] kind = "toolbar" -> ToolbarOnly(g)
      [] OTHER            -> FocusableCells(g)

\* the sessions on the grids G, each with the focus on one cell of its kind
Sessions(G, kind, j, p) ==
    UNION { { Session(g, f, j, p) : f \in CellsOf(kind, g) } : g \in G }

SessionFamily ==
    Sessions(AmountGrids, "amount", "1", "1")
      \cup Sessions(LibelleGrids, "libelle", "1", "1")
      \cup Sessions(ValidGrids, "toolbar", "1", "1")
      \cup Sessions(PayloadGrids, "toolbar", "1", "1")
      \cup Sessions(NavGrids, "any", "", "1")

\* identifiers a session gave the lines of grid ls: a detail line right after
\* a header was created with it, every other line at a time of its own
SessionIds(ls) ==
    [i \in 1..Len(ls) |->
        IF i > 1 /\ ~ls[i].isHeader /\ ls[i - 1].isHeader
        THEN TempId1(i - 1) ELSE TempId(i)]

\* the time of the latest creation among them
SessionClock(ls) == SessionIds(ls)[Len(ls)][1]

\* a session in progress, with one user event left to explore
InSession ==
    \E s \in SessionFamily :
        /\ loading = FALSE
        /\ error = FALSE
        /\ comptes = LoadedComptes
        /\ selectedJournal = s.journal
        /\ selectedPeriode = s.periode
        /\ lignes = s.lignes
        /\ currentRow = IF s.focus = NoFocus THEN 0 ELSE s.focus[1]
        /\ currentCol = IF s.focus = NoFocus THEN 0 ELSE s.focus[2]
        /\ totalDebit = SumDebit(s.lignes)
        /\ totalCredit = SumCredit(s.lignes)
        /\ saving = FALSE
        /\ domFocus = s.focus
        /\ pc = "idle"
        /\ pending = <<>>
        /\ calls = <<>>
        /\ inFlight = 0
        /\ closure = <<>>
        /\ tempIds = SessionIds(s.lignes)
        /\ clock = SessionClock(s.lignes)
        /\ lastOp = Op("init", 0, 0)
        /\ steps = MaxSteps - 1
        /\ AdminClosed

\* the grids of a family that a click on Valider starts a save for
SaveGrids ==
    { g \in PayloadGrids :
        /\ ~Rejected("1", "1", SumDebit(g), SumCredit(g))
        /\ ~Grouper(g).threw
        /\ Grouper(g).ecritures # <<>> }

\* a session whose save is in flight, the user having clicked Valider and
\* then either nothing or a cell of the grid, with one user event left
InSave ==
    \E g \in SaveGrids : \E f \in FocusableCells(g) \cup { NoFocus } :
        /\ loading = FALSE
        /\ error = FALSE
        /\ comptes = LoadedComptes
        /\ selectedJournal = "1"
        /\ selectedPeriode = "1"
        /\ lignes = g
        /\ currentRow = IF f = NoFocus THEN 0 ELSE f[1]
        /\ currentCol = IF f = NoFocus THEN 0 ELSE f[2]
        /\ totalDebit = SumDebit(g)
        /\ totalCredit = SumCredit(g)
        /\ saving = TRUE
        /\ domFocus = f
        /\ pc = "awaiting"
        /\ pending = Tail(Grouper(g).ecritures)
        /\ calls = <<Head(Grouper(g).ecritures)>>
        /\ inFlight = 1
        /\ closure = Capture(g)
        /\ tempIds = SessionIds(g)
        /\ clock = SessionClock(g)
        /\ lastOp = IF f = NoFocus THEN Op("valider_started", 0, 0)
                    ELSE Op("click", f[1], f[2])
        /\ steps = MaxSteps - 1
        /\ AdminClosed

\* a save in flight on a transaction of two valid lines, the user having
\* clicked into the description of the last line, with SaveEvents user
\* events left before the budget of the session ends
LongSaveGrid ==
    <<Header(<<"x">>, ""), Detail(<<"x">>, 2, "", <<>>, <<>>),
      Detail(<<"x">>, 2, "", <<>>, <<>>)>>

InLongSave ==
    /\ loading = FALSE
    /\ error = FALSE
    /\ comptes = LoadedComptes
    /\ selectedJournal = "1"
    /\ selectedPeriode = "1"
    /\ lignes = LongSaveGrid
    /\ currentRow = 2
    /\ currentCol = 4
    /\ totalDebit = SumDebit(LongSaveGrid)
    /\ totalCredit = SumCredit(LongSaveGrid)
    /\ saving = TRUE
    /\ domFocus = <<2, 4>>
    /\ pc = "awaiting"
    /\ pending = Tail(Grouper(LongSaveGrid).ecritures)
    /\ calls = <<Head(Grouper(LongSaveGrid).ecritures)>>
    /\ inFlight = 1
    /\ closure = Capture(LongSaveGrid)
    /\ tempIds = SessionIds(LongSaveGrid)
    /\ clock = SessionClock(LongSaveGrid)
    /\ lastOp = Op("click", 2, 4)
    /\ steps = MaxSteps - SaveEvents
    /\ AdminClosed

-----------------------------------------------------------------------------
UserNext ==
    \/ \E r \in 0..(MaxLines - 1), c \in 0..(totalCols - 1) : ClickCell(r, c)
    \/ KeyTab
    \/ KeyShiftTab
    \/ KeyEnter
    \/ KeyArrowUp
    \/ KeyArrowDown
    \/ KeyF2
    \/ KeyF5
    \/ TypeCompte
    \/ TypeLibelle
    \/ TypeAmount
    \/ SelectJournal
    \/ SelectPeriode
    \/ ClickNouvelle
    \/ ClickEquilibrer
    \/ ClickValider
    \/ CreateResolves
    \/ CreateRejects

Next ==
    \/ loadInitialData
    \/ UserNext

\* a session from the construction of the component, or one in progress
Init == Mounted \/ InSession \/ InSave \/ InLongSave

Spec == Init /\ [][Next]_vars

\* the grids on which a click on Valider takes each of its paths: a fresh
\* grid (nothing to submit), one transaction of two valid lines (one call),
\* two such transactions (the scan fails), an unbalanced grid (disabled)
LiveGrids ==
    { newEcriture,
      LongSaveGrid,
      LongSaveGrid \o LongSaveGrid,
      <<NewHeader, Detail(<<>>, 0, "", <<"1">>, <<>>)>> }

\* the sessions the eventual end of a save is checked from: a session about
\* to click Valider, and a save in flight that the user keeps working beside
LiveInit ==
    \/ /\ InSave
       /\ lignes = LongSaveGrid
    \/ /\ InSession
       /\ lignes \in LiveGrids
       /\ domFocus = NoFocus

\* every create call eventually returns: the promise awaited at line 379 is
\* settled, one way or the other
LiveSpec ==
    LiveInit /\ [][UserNext]_vars /\ WF_vars(CreateResolves \/ CreateRejects)
-----------------------------------------------------------------------------
(* The balance widget of the Django admin inline,                            *)
(* backend/apps/accounting/static/admin/js/ecriture_equilibre.js.  The line  *)
(* numbers of this section are lines of that file.  A row of the inline is   *)
(* kept with what the handlers below read of it: the value of its account    *)
(* select ("" when none is selected), the text of its two amount inputs and  *)
(* its classes selected, to-delete and empty-form.  The row that holds the   *)
(* add link (tr.add-row) has no field and is left out.  The form is rendered *)
(* by Django outside this file: the type of its amount inputs is either text *)
(* or number, fixed when the page opens.                                     *)

AdminRow(cpt, deb, cre) ==
    [compte |-> cpt, debit |-> deb, credit |-> cre,
     selected |-> FALSE, toDelete |-> FALSE, emptyForm |-> FALSE]

\* the template row Django keeps at the end of the inline (tr.empty-form)
EmptyForm == [AdminRow("", <<>>, <<>>) EXCEPT !.emptyForm = TRUE]

AdminOp(name, r) == [op |-> name, row |-> r]

IsDigit(ch) == \E d \in 1..10 : DigitChars[d] = ch

\* the first n characters of s are digits with at most one decimal point
ReadsAsNumber(s, n) ==
    /\ \A i \in 1..n : IsDigit(s[i]) \/ s[i] = "."
    /\ Cardinality({ i \in 1..n : s[i] = "." }) <= 1

HasDigit(s) == \E i \in 1..Len(s) : IsDigit(s[i])

\* the longest prefix of s that parseFloat reads
NumericPrefix(s) ==
    LET n == CHOOSE k \in 0..Len(s) :
                 /\ ReadsAsNumber(s, k)
                 /\ k = Len(s) \/ ~ReadsAsNumber(s, k + 1)
    IN  SubSeq(s, 1, n)

\* `parseFloat(field.val()) || 0`, lines 301-302 and 644-645, in cents
FieldAmount(s) ==
    IF HasDigit(NumericPrefix(s)) THEN parseFloat(NumericPrefix(s)) ELSE 0

\* `value && !isNaN(value)`, line 386
IsNumber(s) == s # <<>> /\ ReadsAsNumber(s, Len(s)) /\ HasDigit(s)

\* the value an input of the given type holds once a text is put in it: a
\* number input keeps a valid number only
Sanitize(type, s) == IF type = "number" /\ ~IsNumber(s) THEN <<>> ELSE s

IsAmountChar(ch) == IsDigit(ch) \/ ch \in {".", ","}

\* replace(/[^\d.,]/g, '') then replace(',', '.'), lines 383-384
CleanAmount(s) ==
    LET kept == SelectSeq(s, IsAmountChar)
    IN  [ i \in 1..Len(kept) |->
            IF kept[i] = "," /\ \A j \in 1..(i - 1) : kept[j] # ","
            THEN "." ELSE kept[i] ]

\* the text val(numValue) writes for a number given in cents, line 389
NumberText(c) ==
    NatToDigits(c \div 100) \o
    ( IF c % 100 = 0 THEN <<>>
      ELSE IF c % 10 = 0 THEN <<".", DigitChars[((c % 100) \div 10) + 1]>>
      ELSE <<".", DigitChars[((c % 100) \div 10) + 1], DigitChars[(c % 10) + 1]>> )

\* formatMoney, lines 373-378, of an amount below 1000 given in cents: the
\* fr-FR format with two fraction digits
formatMoney(c) ==
    NatToDigits(c \div 100) \o
    <<",", DigitChars[((c % 100) \div 10) + 1], DigitChars[(c % 10) + 1]>>

\* the handler of formatMoneyFields, lines 382-394, on a field of the given
\* type holding the text s, the field having the focus or not
formatMoneyFields(type, s, focused) ==
    LET value == CleanAmount(s)
    IN  IF IsNumber(value)
        THEN Sanitize(type, IF focused THEN NumberText(parseFloat(value))
                            ELSE formatMoney(parseFloat(value)))
        ELSE s

\* the rows calculateEquilibre adds up, lines 291-300
Counts(row) == ~row.emptyForm /\ row.compte # ""

\* totalDebit and totalCredit of lines 313-314, f being "debit" or "credit"
RECURSIVE SumRows(_, _)
SumRows(rows, f) ==
    IF rows = <<>> THEN 0
    ELSE (IF Counts(Head(rows)) THEN FieldAmount(Head(rows)[f]) ELSE 0)
         + SumRows(Tail(rows), f)

\* lignesValides of lines 316-318
LignesValides(rows) ==
    Cardinality({ i \in 1..Len(rows) :
        /\ Counts(rows[i])
        /\ FieldAmount(rows[i].debit) > 0 \/ FieldAmount(rows[i].credit) > 0 })

\* updateEquilibreDisplay, lines 336-367
updateEquilibreDisplay(zone, td, tc, lv) ==
    LET difference   == td - tc
        isEquilibree == Abs(difference) < AdminEpsilon /\ td > 0
    IN  [totalDebit |-> td, totalCredit |-> tc, difference |-> Abs(difference),
         indicator |-> IF lv = 0 THEN "empty"
                       ELSE IF isEquilibree THEN "ok" ELSE "error",
         cls |-> IF lv = 0 THEN zone.cls
                 ELSE IF isEquilibree THEN "success" ELSE "error"]

\* calculateEquilibre, lines 280-330; isCalculating is false whenever a
\* handler starts, no handler being entered while another one runs
calculateEquilibre(zone, rows) ==
    updateEquilibreDisplay(zone, SumRows(rows, "debit"), SumRows(rows, "credit"),
                           LignesValides(rows))

\* the filter of submitEcriture, lines 642-647
lignesValidesSubmit(rows) ==
    Cardinality({ i \in 1..Len(rows) :
        /\ rows[i].compte # ""
        /\ FieldAmount(rows[i].debit) > 0 \/ FieldAmount(rows[i].credit) > 0 })

\* updateDeleteButton, lines 238-247
updateDeleteButton(rows) == \E i \in 1..Len(rows) : rows[i].selected

\* the rows a user sees and acts on: to-delete rows are faded out (line 195)
\* and the template is hidden
Visible(rows) ==
    { i \in 1..Len(rows) : ~rows[i].emptyForm /\ ~rows[i].toDelete }

AdminCompteInputs == { "", "1" }
AdminAmountInputs == { <<>>, <<"1">>, <<"1", ",", "5", "0">> }
AmountFields == { "debit", "credit" }

\* the page is initialised and the form has not been submitted
AdminEvent ==
    /\ adminRows # <<>>
    /\ ~submitted
    /\ adminSteps < MaxAdminSteps
    /\ adminSteps' = adminSteps + 1
    /\ UNCHANGED pageVars
    /\ UNCHANGED amountType

\* the change handler of a row's selection checkbox, lines 222-233
ToggleSelector ==
    \E i \in Visible(adminRows) :
        /\ AdminEvent
        /\ adminRows' =
             [ k \in 1..Len(adminRows) |->
                 [adminRows[k] EXCEPT !.selected =
                     IF k = i THEN ~adminRows[i].selected
                     ELSE IF adminRows[i].selected THEN @ ELSE FALSE] ]
        /\ deleteActive' = updateDeleteButton(adminRows')
        /\ adminOp' = AdminOp("select", i)
        /\ UNCHANGED <<equilibre, calcTimer, submitted>>

\* the delete button of the toolbar, lines 189-201, the user answering the
\* confirmation with ok
ClickDelete ==
    /\ AdminEvent
    /\ IF deleteActive /\ updateDeleteButton(adminRows)
       THEN \E ok \in BOOLEAN :
              IF ok
              THEN /\ adminRows' =
                        [ k \in 1..Len(adminRows) |->
                            IF adminRows[k].selected
                            THEN [adminRows[k] EXCEPT !.toDelete = TRUE]
                            ELSE adminRows[k] ]
                   /\ deleteActive' = updateDeleteButton(adminRows')
                   /\ calcTimer' = TRUE
                   /\ adminOp' = AdminOp("delete", 0)
              ELSE /\ adminOp' = AdminOp("delete_cancelled", 0)
                   /\ UNCHANGED <<adminRows, deleteActive, calcTimer>>
       ELSE /\ adminOp' = AdminOp("delete_inactive", 0)
            /\ UNCHANGED <<adminRows, deleteActive, calcTimer>>
    /\ UNCHANGED <<equilibre, submitted>>

\* the add button of the toolbar (lines 180-186) or F9 (lines 576-579): the
\* click on `.add-row a` makes Django insert a blank row before the template,
\* and the timers of lines 182 and 421 end in calculateEquilibre
ClickAdd ==
    /\ AdminEvent
    /\ Len(adminRows) <= MaxAdminRows
    /\ adminRows' = SubSeq(adminRows, 1, Len(adminRows) - 1)
                    \o <<AdminRow("", <<>>, <<>>), EmptyForm>>
    /\ calcTimer' = TRUE
    /\ adminOp' = AdminOp("add", Len(adminRows))
    /\ UNCHANGED <<equilibre, deleteActive, submitted>>

\* the change handlers of a row's account select, lines 409-417
ChangeCompte ==
    \E i \in Visible(adminRows), v \in AdminCompteInputs :
        /\ AdminEvent
        /\ v # adminRows[i].compte
        /\ adminRows' = [adminRows EXCEPT ![i].compte = v]
        /\ equilibre' = calculateEquilibre(equilibre, adminRows')
        /\ adminOp' = AdminOp("compte", i)
        /\ UNCHANGED <<deleteActive, calcTimer, submitted>>

\* the input handlers of an amount field, lines 382-394 and 403-406, the
\* user having typed or pasted the text v into the focused field
InputAmount ==
    \E i \in Visible(adminRows), f \in AmountFields, v \in AdminAmountInputs :
        /\ AdminEvent
        /\ adminRows' =
             [adminRows EXCEPT ![i][f] =
                 formatMoneyFields(amountType, Sanitize(amountType, v), TRUE)]
        /\ calcTimer' = TRUE
        /\ adminOp' = AdminOp("input", i)
        /\ UNCHANGED <<equilibre, deleteActive, submitted>>

\* the blur handlers of an amount field, lines 382-394 and 434-437
BlurAmount ==
    \E i \in Visible(adminRows), f \in AmountFields :
        /\ AdminEvent
        /\ adminRows' =
             [adminRows EXCEPT ![i][f] =
                 formatMoneyFields(amountType, adminRows[i][f], FALSE)]
        /\ adminOp' = AdminOp("blur", i)
        /\ UNCHANGED <<equilibre, deleteActive, calcTimer, submitted>>

\* a pending setTimeout fires and runs calculateEquilibre (lines 184, 197,
\* 405, 424)
CalcTimer ==
    /\ calcTimer
    /\ ~submitted
    /\ equilibre' = calculateEquilibre(equilibre, adminRows)
    /\ calcTimer' = FALSE
    /\ adminOp' = AdminOp("calculate", 0)
    /\ UNCHANGED <<adminRows, amountType, deleteActive, submitted, adminSteps>>
    /\ UNCHANGED pageVars

\* submitEcriture, lines 632-656, run by Ctrl+Enter (lines 570-573)
submitEcriture ==
    /\ AdminEvent
    /\ equilibre' = calculateEquilibre(equilibre, adminRows)
    /\ IF equilibre'.cls # "success"
       THEN /\ adminOp' = AdminOp("submit_unbalanced", 0)
            /\ UNCHANGED submitted
       ELSE IF lignesValidesSubmit(adminRows) < 2
       THEN /\ adminOp' = AdminOp("submit_too_few", 0)
            /\ UNCHANGED submitted
       ELSE /\ adminOp' = AdminOp("submitted", 0)
            /\ submitted' = TRUE
    /\ UNCHANGED <<adminRows, deleteActive, calcTimer>>

\* the rows an entry opened in the admin shows: with or without an account,
\* with an amount on one side or none
AdminRowKinds ==
    { AdminRow(c, a[1], a[2]) :
        c \in AdminCompteInputs,
        a \in { <<<<>>, <<>>>>, <<<<"1">>, <<>>>>, <<<<>>, <<"1">>>> } }

RECURSIVE AdminGridsOfLen(_)
AdminGridsOfLen(n) ==
    IF n = 0 THEN { <<>> }
    ELSE { g \o <<r>> : g \in AdminGridsOfLen(n - 1), r \in AdminRowKinds }

\* the page once the timer of lines 19-33 has run on an entry page: the zone
\* is created and calculateEquilibre has run once
AdminInit ==
    /\ MountedPage
    /\ \E g \in AdminGridsOfLen(AdminGridLines), ty \in {"text", "number"} :
         /\ adminRows = g \o <<EmptyForm>>
         /\ amountType = ty
         /\ equilibre = calculateEquilibre(NewZone, g \o <<EmptyForm>>)
    /\ deleteActive = FALSE
    /\ calcTimer = FALSE
    /\ submitted = FALSE
    /\ adminOp = AdminOp("ready", 0)
    /\ adminSteps = 0

AdminNext ==
    \/ ToggleSelector
    \/ ClickDelete
    \/ ClickAdd
    \/ ChangeCompte
    \/ InputAmount
    \/ BlurAmount
    \/ CalcTimer
    \/ submitEcriture

AdminSpec == AdminInit /\ [][AdminNext]_vars

-----------------------------------------------------------------------------
(* Properties *)

\* the step just taken ran equilibrerEcriture (the F5 key or the button)
IsEquilibrer(o) == o.op \in {"F5", "equilibrer"}

HeaderRows(ls) == { i \in 0..(Len(ls) - 1) : ls[i + 1].isHeader }

\* the row of the first header line after row r, or the number of lines
NextHeaderAfter(ls, r) ==
    IF \E i \in HeaderRows(ls) : i > r
    THEN CHOOSE i \in HeaderRows(ls) :
            i > r /\ \A j \in HeaderRows(ls) : j > r => i <= j
    ELSE Len(ls)

\* the value of an amount field: nothing for a blank field
FieldCents(s) == IF s = <<>> THEN 0 ELSE parseFloat(s)

\* the sum of a field over the detail lines from position i on
RECURSIVE SumFrom(_, _, _)
SumFrom(ls, i, field) ==
    IF i > Len(ls) THEN 0
    ELSE (IF ls[i].isHeader THEN 0 ELSE FieldCents(ls[i][field]))
           + SumFrom(ls, i + 1, field)

\* the footer of lines 645-655 shows "Equilibre" rather than the gap
equilibreAffiche == Abs(totalDebit - totalCredit) < Epsilon

\* C1: once the grid is initialised, line 0 is a header line and every
\* non-header line has a header line somewhere before it.
C1_HeaderFirst ==
    Ready =>
        /\ Len(lignes) >= 1
        /\ lignes[1].isHeader
        /\ \A i \in 1..Len(lignes) :
              ~lignes[i].isHeader => \E j \in 1..(i - 1) : lignes[j].isHeader

\* a line was appended by Tab to a grid holding two transactions
C1_Witness ==
    /\ lastOp.op = "Tab"
    /\ lastOp.note = "append"
    /\ Cardinality(HeaderRows(lignes)) >= 2

\* C2: the totals are the sums of the debit and of the credit fields over the
\* non-header lines, a blank field counting for 0, and the footer reports the
\* grid balanced exactly when the two sums differ by less than 0.01.
C2_TotalsAreSums ==
    /\ totalDebit = SumFrom(lignes, 1, "debit")
    /\ totalCredit = SumFrom(lignes, 1, "credit")
    /\ equilibreAffiche <=>
          Abs(SumFrom(lignes, 1, "debit") - SumFrom(lignes, 1, "credit")) < 1

\* an amount was just typed and the grid holds unequal debit and credit totals
C2_Witness ==
    /\ lastOp.op \in {"debit", "credit"}
    /\ totalDebit > 0
    /\ totalCredit > 0
    /\ ~equilibreAffiche
    /\ Cardinality(HeaderRows(lignes)) >= 2

\* C3: auto-balance invoked on an unbalanced grid with a touched detail line
\* leaves the grid balanced.
C3_AutoBalanceBalances ==
    [][ ( /\ IsEquilibrer(lastOp')
          /\ steps' = steps + 1
          /\ ~Balanced(totalDebit, totalCredit)
          /\ \E i \in 1..Len(lignes) : Touched(lignes[i]) )
        => Balanced(totalDebit', totalCredit') ]_vars

\* C4: auto-balance invoked on a balanced grid, or on a grid without a touched
\* detail line, changes neither the lines, nor the totals, nor the focus cell.
C4_AutoBalanceNoOp ==
    [][ ( /\ IsEquilibrer(lastOp')
          /\ steps' = steps + 1
          /\ \/ Balanced(totalDebit, totalCredit)
             \/ ~\E i \in 1..Len(lignes) : Touched(lignes[i]) )
        => UNCHANGED <<lignes, totalDebit, totalCredit, currentRow, currentCol>>
      ]_vars

\* auto-balance returned early on a balanced grid that carries amounts
C4_Witness ==
    /\ IsEquilibrer(lastOp)
    /\ lastOp.note = "balanced"
    /\ totalDebit > 0
    /\ \E i \in 1..Len(lignes) : Touched(lignes[i])

\* C5: an edit of a header's description from P to V sets V on the detail
\* lines of that transaction whose description was empty or P, and changes no
\* other detail line of it and no line of another transaction.
C5_Propagation ==
    [][ ( /\ lastOp'.op = "libelle"
          /\ steps' = steps + 1
          /\ lignes[lastOp'.row + 1].isHeader )
        => LET r == lastOp'.row
               P == lignes[r + 1].libelle
               V == lignes'[r + 1].libelle
               e == NextHeaderAfter(lignes, r)
           IN  /\ Len(lignes') = Len(lignes)
               /\ lignes'[r + 1] = [lignes[r + 1] EXCEPT !.libelle = V]
               /\ \A i \in 0..(Len(lignes) - 1) :
                     i # r =>
                       IF r < i /\ i < e /\ lignes[i + 1].libelle \in {"", P}
                       THEN lignes'[i + 1] = [lignes[i + 1] EXCEPT !.libelle = V]
                       ELSE lignes'[i + 1] = lignes[i + 1]
      ]_vars

\* a header's description went from "A" to empty; its transaction holds a
\* line that followed it and a line with a description of its own
C5_Witness ==
    /\ lastOp.op = "libelle"
    /\ lastOp.note = "A"
    /\ Line(lastOp.row).isHeader
    /\ Line(lastOp.row).libelle = ""
    /\ \E i, j \in (lastOp.row + 1)..(NextHeaderAfter(lignes, lastOp.row) - 1) :
          Line(i).libelle = "" /\ Line(j).libelle = "B"

\* a detail line that submission keeps: a typed code and a resolved account
ValidDetail(l) == ~l.isHeader /\ l.compte # <<>> /\ l.compteId # 0

RECURSIVE SortedRows(_)
SortedRows(S) ==
    IF S = {} THEN <<>>
    ELSE LET m == CHOOSE x \in S : \A y \in S : x <= y
         IN  <<m>> \o SortedRows(S \ {m})

\* the rows of the valid detail lines of the transaction of header row h
ValidRowsOf(ls, h) ==
    SortedRows({ i \in (h + 1)..(NextHeaderAfter(ls, h) - 1) :
                    ValidDetail(ls[i + 1]) })

\* a click on Valider that passed the preconditions and reached the grouping
Grouped(o) == o.op \in {"valider_started", "valider_threw"}

\* the payloads the save just started will submit
Submitted == IF lastOp.op = "valider_started" THEN calls \o pending ELSE <<>>

PayloadsOf(h) == { k \in 1..Len(Submitted) : Submitted[k].src = h }

RowsOf(e) == [k \in 1..Len(e.lignes_data) |-> e.lignes_data[k].row]

\* C6: at submission, a transaction whose header carries an account code
\* yields no payload when it has exactly one valid detail line, and exactly
\* one payload holding its valid detail lines in order when it has two or
\* more, whether it is the last transaction or an earlier one.
C6_GroupingThreshold ==
    Grouped(lastOp) =>
        \A h \in HeaderRows(lignes) :
            lignes[h + 1].compte # <<>> =>
                LET v == ValidRowsOf(lignes, h)
                IN  /\ Len(v) = 1 => PayloadsOf(h) = {}
                    /\ Len(v) >= 2 =>
                          \E k \in 1..Len(Submitted) :
                              /\ PayloadsOf(h) = {k}
                              /\ RowsOf(Submitted[k]) = v

\* C7: Tab from (row, 6) on the last row adds exactly one detail line, which
\* is row + 1, and tracks (row + 1, 0); when a next row exists it tracks
\* (row + 1, 0) and leaves the lines alone.
C7_TabWrap ==
    [][ ( /\ lastOp'.op = "Tab"
          /\ lastOp'.col = 6
          /\ steps' = steps + 1 )
        => LET row == lastOp'.row
           IN  IF row = Len(lignes) - 1
               THEN /\ Len(lignes') = Len(lignes) + 1
                    /\ SubSeq(lignes', 1, Len(lignes)) = lignes
                    /\ ~lignes'[row + 2].isHeader
                    /\ currentRow' = row + 1
                    /\ currentCol' = 0
               ELSE /\ lignes' = lignes
                    /\ currentRow' = row + 1
                    /\ currentCol' = 0
      ]_vars

\* Tab from the credit cell of the last row appended the row now tracked
C7_Witness ==
    /\ lastOp.op = "Tab"
    /\ lastOp.col = 6
    /\ lastOp.note = "append"
    /\ Len(lignes) = lastOp.row + 2
    /\ currentRow = lastOp.row + 1
    /\ currentCol = 0

\* C8: once the last create call of a save has succeeded, the lines are one
\* fresh header line followed by one blank detail line.
C8_SaveResets == lastOp.op = "create_saved" => lignes = newEcriture

\* C9: a save of a grid whose transactions all have a header with an account
\* code and two or more valid detail lines submits one payload per
\* transaction, in the order of the headers, the first call out and the
\* others waiting for it.
C9_OneCallPerTransaction ==
    ( /\ Grouped(lastOp)
      /\ \A h \in HeaderRows(lignes) :
            lignes[h + 1].compte # <<>> /\ Len(ValidRowsOf(lignes, h)) >= 2 )
    => /\ [k \in 1..Len(Submitted) |-> Submitted[k].src]
            = SortedRows(HeaderRows(lignes))
       /\ Len(calls) = 1
       /\ inFlight = 1

\* the step just taken is a click on Valider
IsValider(o) ==
    o.op \in {"valider_disabled", "valider_rejected", "valider_threw",
              "valider_saved", "valider_started"}

\* C10: a submission attempted without a journal, without a period or on an
\* unbalanced grid issues no create call and changes neither the lines, the
\* focus cell, the totals nor the saving flag.
C10_RejectedSubmission ==
    [][ ( /\ IsValider(lastOp')
          /\ steps' = steps + 1
          /\ \/ selectedJournal = ""
             \/ selectedPeriode = ""
             \/ Abs(totalDebit - totalCredit) >= 1 )
        => UNCHANGED <<lignes, currentRow, currentCol, totalDebit, totalCredit,
                       saving, calls, inFlight, pc>>
      ]_vars

\* a click on Valider was turned down for want of a journal
C10_Witness ==
    /\ lastOp.op = "valider_rejected"
    /\ selectedJournal = ""
    /\ selectedPeriode # ""
    /\ Balanced(totalDebit, totalCredit)

RECURSIVE PayloadSum(_, _, _)
PayloadSum(e, i, field) ==
    IF i > Len(e.lignes_data) THEN 0
    ELSE e.lignes_data[i][field] + PayloadSum(e, i + 1, field)

\* C12: every payload handed to a create call has at least 2 entries, and
\* each entry has a resolved account and a non-zero debit or credit amount.
C12_PayloadLines ==
    \A k \in 1..Len(calls) :
        /\ Len(calls[k].lignes_data) >= 2
        /\ \A i \in 1..Len(calls[k].lignes_data) :
              LET e == calls[k].lignes_data[i]
              IN  /\ e.compte # 0
                  /\ e.montant_debit # 0 \/ e.montant_credit # 0

\* C13: every payload handed to a create call is balanced: its debit
\* amounts and its credit amounts have the same sum within 0.01.
C13_PayloadBalanced ==
    \A k \in 1..Len(calls) :
        Abs(PayloadSum(calls[k], 1, "montant_debit")
              - PayloadSum(calls[k], 1, "montant_credit")) < 1

\* the step just taken ran handleCompteSearch on a value that some loaded
\* account code starts with (matched) or that none starts with (~matched)
CompteStep(matched) ==
    /\ lastOp'.op = "compte"
    /\ steps' = steps + 1
    /\ matched <=> \E i \in 1..Len(comptes) :
                       startsWith(comptes[i].code, lastOp'.value)

\* C14: resolving a typed value v that some loaded account code starts with
\* leaves the line with v as its account code and with the identifier of
\* the first such account in list order, and leaves every other line alone.
C14_ResolveMatch ==
    [][ CompteStep(TRUE)
        => LET r == lastOp'.row + 1
               v == lastOp'.value
           IN  /\ Len(lignes') = Len(lignes)
               /\ lignes'[r].compte = v
               /\ \E i \in 1..Len(comptes) :
                     /\ startsWith(comptes[i].code, v)
                     /\ \A j \in 1..(i - 1) : ~startsWith(comptes[j].code, v)
                     /\ lignes'[r].compteId = comptes[i].id
               /\ \A i \in 1..Len(lignes) : i # r => lignes'[i] = lignes[i]
      ]_vars

\* C15: resolving a typed value that no loaded account code starts with
\* leaves the line without a resolved account, whatever it had before.
C15_ResolveNoMatch ==
    [][ CompteStep(FALSE) => lignes'[lastOp'.row + 1].compteId = 0 ]_vars

\* ls2 is ls with exactly one non-header line added, the others kept in order
OneDetailAdded(ls, ls2) ==
    /\ Len(ls2) = Len(ls) + 1
    /\ \E k \in 1..Len(ls2) :
          /\ ~ls2[k].isHeader
          /\ SubSeq(ls2, 1, k - 1) = SubSeq(ls, 1, k - 1)
          /\ SubSeq(ls2, k + 1, Len(ls2)) = SubSeq(ls, k, Len(ls))

\* C16: Enter at (row, col) tracks (row + 1, 0) and leaves the lines alone
\* when a next row exists; otherwise it adds exactly one detail line and
\* tracks (row + 1, 0).
C16_Enter ==
    [][ ( lastOp'.op = "Enter" /\ steps' = steps + 1 )
        => LET row == lastOp'.row
           IN  /\ currentRow' = row + 1
               /\ currentCol' = 0
               /\ IF row < Len(lignes) - 1
                  THEN lignes' = lignes
                  ELSE OneDetailAdded(lignes, lignes')
      ]_vars

\* C17: at most one create call of the grid is in flight at any moment, and
\* while one is, the saving flag is up and its save is the one waiting for
\* it, whatever the user does in the meantime.
C17_OneInFlight ==
    /\ inFlight <= 1
    /\ inFlight = 1 => saving /\ pc = "awaiting"
    /\ inFlight = 0 => pc = "idle"

\* the user clicked Valider while a create call was pending, or pressed a
\* key in the grid, and the call is still the only one out
C17_Witness ==
    /\ inFlight = 1
    /\ saving
    /\ lastOp.op \in {"valider_disabled", "F2", "F5"}
    /\ Len(calls) = 1

\* C18: in every state of the grid the lines have pairwise distinct tempIds,
\* also when lines were created without the clock advancing in between.
C18_DistinctTempIds ==
    /\ Len(tempIds) = Len(lignes)
    /\ \A i, j \in 1..Len(tempIds) : i # j => tempIds[i] # tempIds[j]

\* the row of the header line of the transaction that owns row r
HeaderOf(ls, r) ==
    CHOOSE h \in HeaderRows(ls) :
        h <= r /\ \A g \in HeaderRows(ls) : g <= r => g <= h

\* the step just taken ran addLigneToCurrentEcriture (Tab or Enter on the
\* last row)
IsAppend(o) == o.op \in {"Tab", "Enter"} /\ o.note = "append"

\* C19: appending a line with the focus tracked on row r inserts exactly one
\* non-header line at the index of the first header after r (the end when
\* there is none), keeps every other line and their order, and the new line
\* has an empty account, debit and credit and the description of the header
\* of the transaction that owns row r.
C19_AppendLine ==
    [][ ( IsAppend(lastOp') /\ steps' = steps + 1 )
        => LET r == currentRow
               k == NextHeaderAfter(lignes, r)
           IN  /\ Len(lignes') = Len(lignes) + 1
               /\ SubSeq(lignes', 1, k) = SubSeq(lignes, 1, k)
               /\ SubSeq(lignes', k + 2, Len(lignes'))
                     = SubSeq(lignes, k + 1, Len(lignes))
               /\ lignes'[k + 1]
                     = NewDetail(lignes[HeaderOf(lignes, r) + 1].libelle)
      ]_vars

\* a text is an amount written with exactly 2 decimals
TwoDecimals(s) ==
    /\ Len(s) >= 4
    /\ s[Len(s) - 2] = "."
    /\ \A i \in 1..Len(s) :
          i # Len(s) - 2 => \E d \in 1..10 : DigitChars[d] = s[i]

\* C20: when auto-balance acts, it rewrites the last non-header line that has
\* an account, a debit or a credit, and no other line: with a debit excess
\* the line's credit becomes the gap written with 2 decimals and its debit
\* becomes empty, with a credit excess the other way round.
C20_AutoBalanceTarget ==
    [][ ( /\ IsEquilibrer(lastOp')
          /\ steps' = steps + 1
          /\ ~Balanced(totalDebit, totalCredit)
          /\ \E i \in 1..Len(lignes) : Touched(lignes[i]) )
        => LET gap == totalDebit - totalCredit
               t   == CHOOSE i \in 1..Len(lignes) :
                         /\ Touched(lignes[i])
                         /\ \A j \in (i + 1)..Len(lignes) : ~Touched(lignes[j])
               set == IF gap > 0 THEN "credit" ELSE "debit"
               cleared == IF gap > 0 THEN "debit" ELSE "credit"
           IN  /\ Len(lignes') = Len(lignes)
               /\ \A i \in 1..Len(lignes) : i # t => lignes'[i] = lignes[i]
               /\ lignes'[t][cleared] = <<>>
               /\ TwoDecimals(lignes'[t][set])
               /\ parseFloat(lignes'[t][set]) = Abs(gap)
               /\ lignes'[t] = [lignes[t] EXCEPT ![set] = lignes'[t][set],
                                                 ![cleared] = <<>>]
      ]_vars

\* auto-balance found a debit excess on a grid with two touched lines and
\* wrote the gap, 1.50, as the credit of the last one
C20_Witness ==
    /\ IsEquilibrer(lastOp)
    /\ lastOp.note = "credit"
    /\ \E i, j \in 1..Len(lignes) :
          /\ i < j
          /\ Touched(lignes[i])
          /\ Touched(lignes[j])
          /\ \A k \in (j + 1)..Len(lignes) : ~Touched(lignes[k])
          /\ lignes[j].credit = <<"1", ".", "5", "0">>
          /\ lignes[j].debit = <<>>

\* the rows whose line differs between ls and ls2 (same length)
ChangedRows(ls, ls2) == { i \in 1..Len(ls) : ls2[i] # ls[i] }

\* C21: one run of auto-balance changes at most one line, only the debit and
\* credit of that line, never a header line, and leaves the number and the
\* order of the lines and the tracked focus cell as they were.
C21_AutoBalanceFrame ==
    [][ ( IsEquilibrer(lastOp') /\ steps' = steps + 1 )
        => /\ Len(lignes') = Len(lignes)
           /\ tempIds' = tempIds
           /\ Cardinality(ChangedRows(lignes, lignes')) <= 1
           /\ \A i \in ChangedRows(lignes, lignes') :
                 /\ ~lignes[i].isHeader
                 /\ lignes'[i] = [lignes[i] EXCEPT !.debit = lignes'[i].debit,
                                                   !.credit = lignes'[i].credit]
           /\ currentRow' = currentRow
           /\ currentCol' = currentCol
      ]_vars

\* auto-balance rewrote the last of several lines carrying amounts and the
\* others still carry theirs
C21_Witness ==
    /\ IsEquilibrer(lastOp)
    /\ lastOp.note = "debit"
    /\ \E i, j \in 1..Len(lignes) :
          /\ i < j
          /\ lignes[i].credit # <<>>
          /\ lignes[j].debit # <<>>
          /\ lignes[j].credit = <<>>
          /\ \A k \in (j + 1)..Len(lignes) : ~Touched(lignes[k])

\* C22: every entry of a submitted payload comes from a line between the
\* header that opened the payload and the next header of the sequence, so a
\* line under a header without an account code never lands in the payload
\* of an earlier transaction.
C22_PayloadWithinTransaction ==
    lastOp.op = "valider_started" =>
        \A k \in 1..Len(Submitted) :
            \A i \in 1..Len(Submitted[k].lignes_data) :
                LET h == Submitted[k].src
                    r == Submitted[k].lignes_data[i].row
                IN  h < r /\ r < NextHeaderAfter(lignes, h)

\* the step just taken is a transition of the navigation table
IsNavigation(o) ==
    o.op \in {"Tab", "ShiftTab", "Enter", "ArrowUp", "ArrowDown"}

\* C23: after Tab, Shift+Tab, Enter, ArrowUp or ArrowDown the tracked cell
\* has an enabled input and that input is the one holding the focus.
C23_TrackedIsFocused ==
    [][ ( IsNavigation(lastOp') /\ steps' = steps + 1 )
        => /\ currentRow' < Len(lignes')
           /\ Focusable(lignes', currentRow', currentCol')
           /\ domFocus' = <<currentRow', currentCol'>>
      ]_vars

\* C24: Shift+Tab at (row, col) tracks (row, col - 1) when col > 0,
\* (row - 1, 6) when col = 0 and row > 0, and changes nothing at (0, 0); the
\* lines are unchanged in all three cases.
C24_ShiftTab ==
    [][ ( lastOp'.op = "ShiftTab" /\ steps' = steps + 1 )
        => LET row == lastOp'.row
               col == lastOp'.col
           IN  /\ lignes' = lignes
               /\ IF col > 0
                  THEN currentRow' = row /\ currentCol' = col - 1
                  ELSE IF row > 0
                  THEN currentRow' = row - 1 /\ currentCol' = 6
                  ELSE currentRow' = currentRow /\ currentCol' = currentCol
      ]_vars

\* C25: F2 on any cell appends a header line followed by one blank detail
\* line at the end, and leaves every line that was there and the tracked
\* focus cell unchanged; F5 leaves the lines as auto-balance leaves them
\* and the tracked focus cell unchanged.
C25_FunctionKeys ==
    [][ ( lastOp'.op \in {"F2", "F5"} /\ steps' = steps + 1 )
        => /\ currentRow' = currentRow
           /\ currentCol' = currentCol
           /\ lastOp'.op = "F2" =>
                 /\ Len(lignes') = Len(lignes) + 2
                 /\ SubSeq(lignes', 1, Len(lignes)) = lignes
                 /\ lignes'[Len(lignes) + 1] = NewHeader
                 /\ lignes'[Len(lignes) + 2] = NewDetail("")
           /\ lastOp'.op = "F5" =>
                 /\ Len(lignes') = Len(lignes)
                 /\ Balanced(totalDebit, totalCredit) => lignes' = lignes
                 /\ ~Balanced(totalDebit, totalCredit) =>
                       \A i \in 1..Len(lignes) :
                          lignes'[i] # lignes[i] =>
                             /\ Touched(lignes[i])
                             /\ \A j \in (i + 1)..Len(lignes) :
                                   ~Touched(lignes[j])
      ]_vars

\* F2 pressed in a cell of a grid holding amounts added a transaction at the
\* end; the focus is tracked where it was
C25_Witness ==
    /\ lastOp.op = "F2"
    /\ currentRow = lastOp.row
    /\ currentCol = lastOp.col
    /\ Len(lignes) >= 4
    /\ lignes[Len(lignes) - 1] = NewHeader
    /\ lignes[Len(lignes)] = NewDetail("")
    /\ \E i \in 1..(Len(lignes) - 2) : Touched(lignes[i])

\* C26: in every state of the grid every header line has an empty debit and
\* an empty credit.
C26_HeaderNoAmount ==
    \A i \in 1..Len(lignes) :
        lignes[i].isHeader => lignes[i].debit = <<>> /\ lignes[i].credit = <<>>

\* auto-balance wrote an amount in a grid of two transactions, the last line
\* touched being right before the second header, and the headers carry none
C26_Witness ==
    /\ IsEquilibrer(lastOp)
    /\ lastOp.note \in {"debit", "credit"}
    /\ Cardinality(HeaderRows(lignes)) >= 2
    /\ \E i \in 1..(Len(lignes) - 1) :
          /\ Touched(lignes[i])
          /\ lignes[i + 1].isHeader
          /\ \A j \in (i + 1)..Len(lignes) : ~Touched(lignes[j])
    /\ \A i \in 1..Len(lignes) :
          lignes[i].isHeader => lignes[i].debit = <<>> /\ lignes[i].credit = <<>>

\* C27: once the grid is initialised, the tracked focus is a cell of the
\* grid: 0 <= currentRow < number of lines and 0 <= currentCol <= 6.
C27_TrackedInRange ==
    Ready => /\ 0 <= currentRow /\ currentRow < Len(lignes)
             /\ 0 <= currentCol /\ currentCol <= 6

\* C28: once the grid is initialised, every header line is immediately
\* followed by a non-header line, so the last line is never a header.
C28_HeaderHasDetail ==
    Ready =>
        \A i \in 1..Len(lignes) :
            lignes[i].isHeader => i < Len(lignes) /\ ~lignes[i + 1].isHeader

\* Enter on the last row added a line to a grid of several transactions
C28_Witness ==
    /\ lastOp.op = "Enter"
    /\ lastOp.note = "append"
    /\ Cardinality(HeaderRows(lignes)) >= 2
    /\ ~lignes[Len(lignes)].isHeader
    /\ \A h \in HeaderRows(lignes) : ~lignes[h + 2].isHeader

\* the click on Valider just taken passed the preconditions
PassedPreconditions(o) ==
    o.op \in {"valider_started", "valider_threw", "valider_saved"}

\* C29: a save that passed the preconditions eventually ends with the saving
\* flag down, whether its create calls succeed, one fails or the grouping
\* fails, provided every create call returns; and the flag is up only while
\* the submission loop awaits a call.
C29_SaveEnds ==
    /\ (PassedPreconditions(lastOp) ~> ~saving)
    /\ (saving ~> ~saving)
    /\ [](saving => pc = "awaiting" /\ inFlight = 1)

\* a save ended, by the success of its call or by its failure, flag down
C29_Witness ==
    /\ lastOp.op \in {"create_saved", "create_failed"}
    /\ ~saving
    /\ pc = "idle"
    /\ calls # <<>>

\* a row the server will save: an account selected, not marked for deletion
WillBeSaved(row) == Counts(row) /\ ~row.toDelete

SavedRows(rows) == SelectSeq(rows, WillBeSaved)

\* the rows to be saved are at least two with an amount, and balance
SavedBalanced(rows) ==
    /\ Abs(SumRows(SavedRows(rows), "debit") - SumRows(SavedRows(rows), "credit"))
         < AdminEpsilon
    /\ SumRows(SavedRows(rows), "debit") > 0

\* the handler that ran last ended in calculateEquilibre
Recalculated(o) ==
    o.op \in {"calculate", "compte", "submit_unbalanced", "submit_too_few",
              "submitted"}

\* C30: in the admin widget the form is submitted only if the rows that will
\* be saved (account selected, not marked for deletion) are at least two with
\* a positive debit or credit and balance, total debit positive; and once
\* the totals are recalculated they are the totals of those rows, a row
\* deleted through the toolbar counting no more for the totals or the status.
C30_SubmitSavedBalanced ==
    /\ submitted =>
         /\ LignesValides(SavedRows(adminRows)) >= 2
         /\ SavedBalanced(adminRows)
    /\ Recalculated(adminOp) =>
         /\ equilibre.totalDebit = SumRows(SavedRows(adminRows), "debit")
         /\ equilibre.totalCredit = SumRows(SavedRows(adminRows), "credit")
         /\ equilibre.indicator = "ok" =>
              SavedBalanced(adminRows)
====
